---------------------------- MODULE Spec2Model ----------------------------
(***************************************************************************)
(* A model of src/search-sessions.py: the command-line tool that searches  *)
(* session history either through the sessions-index.json metadata files   *)
(* (search_index) or through the raw JSONL logs by way of ripgrep          *)
(* (search_deep).                                                          *)
(*                                                                         *)
(* Strings are sequences of one-character strings, so that lower(),        *)
(* split(), join(), the `in` substring test and string comparison are      *)
(* computed rather than assumed.  Scores are the integers 3, 2, 1 and      *)
(* their sums (the code uses the floats 3.0, 2.0, 1.0, whose sums are      *)
(* exact).                                                                 *)
(***************************************************************************)
EXTENDS Integers, Sequences, FiniteSets, TLC

VARIABLES
    pc,             \* position of main()
    args,           \* the argparse.Namespace: query, deep, limit, project
    dirs,           \* project directories present under PROJECTS_DIR
    file_idx,       \* search_index: index file being read (position in DirList)
    original_path,  \* search_index: original_path of the index file being read
    remaining,      \* entries of the current index file / rg output lines not yet read
    consumed,       \* number of entries scored / rg output lines read so far
    scored,         \* the last entry scored and what score_index_entry returned for it
    matches,        \* the match list of the running pipeline
    seen_sessions,  \* search_deep: session id -> number of lines counted
    search_path,    \* search_deep: directory handed to rg (0 is PROJECTS_DIR)
    last_line,      \* search_deep: what became of the rg output line read last
    stderr,         \* messages written to stderr
    printed,        \* what print_index_results / print_deep_results wrote
    exit_code,      \* -1 while running, then the exit status
    snippet_call    \* get_snippet: the text it was called on and what it returned

vars == <<pc, args, dirs, file_idx, original_path, remaining, consumed, scored,
          matches, seen_sessions, search_path, last_line, stderr, printed,
          exit_code, snippet_call>>

----------------------------------------------------------------------------
(* Bounds of the model *)

MaxEntries == 3     \* index entries read in one run of search_index
MaxLines == 3       \* output lines of rg in one run of search_deep
MaxLimit == 3       \* largest --limit
MaxPad == 130       \* longest run of characters before / after the searched part of a text

(* Program constants *)

MAX_SNIPPET_LEN == 200
DEFAULT_LIMIT == 20
SESSION_CAP == 2
WEIGHT_SUMMARY == 3
WEIGHT_FIRST_PROMPT == 2
WEIGHT_BRANCH == 1
WEIGHT_PATH == 1
CONTEXT_CHARS == 80

----------------------------------------------------------------------------
(* Strings *)

LowerChar(c) ==
    CASE c = "A" -> "a"
      [] c = "B" -> "b"
      [] c = "P" -> "p"
      [] c = "Q" -> "q"
      [] OTHER -> c

\* the characters c.lower() consists of: "Idot" stands for U+0130 (capital I
\* with dot above), which str.lower() turns into the two characters "i" and
\* U+0307 (combining dot above, "dot"); every other character becomes one
LowerChars(c) == IF c = "Idot" THEN <<"i", "dot">> ELSE <<LowerChar(c)>>

\* s[lo-1:hi].lower(), the characters of s lowered one by one and joined
RECURSIVE LowerRange(_, _, _)
LowerRange(s, lo, hi) ==
    IF lo > hi THEN <<>>
    ELSE IF lo = hi THEN LowerChars(s[lo])
    ELSE LowerRange(s, lo, (lo + hi) \div 2) \o LowerRange(s, (lo + hi) \div 2 + 1, hi)

\* str.lower()
Lower(s) ==
    IF \A i \in 1..Len(s) : Len(LowerChars(s[i])) = 1
    THEN [i \in 1..Len(s) |-> LowerChars(s[i])[1]]
    ELSE LowerRange(s, 1, Len(s))

\* sub in s
Contains(sub, s) ==
    \E i \in 0..(Len(s) - Len(sub)) : SubSeq(s, i + 1, i + Len(sub)) = sub

\* s[:n]
Take(s, n) == SubSeq(s, 1, IF n < Len(s) THEN n ELSE Len(s))

\* " ".join(words)
RECURSIVE Join(_)
Join(words) ==
    IF words = <<>> THEN <<>>
    ELSE IF Len(words) = 1 THEN words[1]
    ELSE words[1] \o <<" ">> \o Join(Tail(words))

\* str.split(): the maximal runs of non-blank characters, in order
RECURSIVE SplitFrom(_, _, _)
SplitFrom(s, i, cur) ==
    IF i > Len(s) THEN (IF cur = <<>> THEN <<>> ELSE <<cur>>)
    ELSE IF s[i] = " "
         THEN (IF cur = <<>> THEN <<>> ELSE <<cur>>) \o SplitFrom(s, i + 1, <<>>)
         ELSE SplitFrom(s, i + 1, Append(cur, s[i]))

Split(s) == SplitFrom(s, 1, <<>>)

\* code point of the characters that occur in the compared strings
CharCode(c) ==
    CASE c = "0" -> 48
      [] c = "1" -> 49
      [] c = "2" -> 50
      [] OTHER -> 0

\* s < t, as Python compares str
RECURSIVE StrLess(_, _)
StrLess(s, t) ==
    IF t = <<>> THEN FALSE
    ELSE IF s = <<>> THEN TRUE
    ELSE IF CharCode(s[1]) # CharCode(t[1]) THEN CharCode(s[1]) < CharCode(t[1])
    ELSE StrLess(Tail(s), Tail(t))

\* dict.get(key, default)
Get(d, key, default) == IF key \in DOMAIN d THEN d[key] ELSE default

----------------------------------------------------------------------------
(* Inputs *)

\* argv words of the positional query (nargs="+"); a word may itself hold blanks
QueryArgv ==
    { << <<"A">> >>,
      << <<"a">>, <<"b">> >>,
      << <<"a", " ", "b">> >>,
      << <<"b">>, <<"B">> >>,
      << <<" ">> >> }

Limits == {0, 1, MaxLimit}

\* --project: absent (None) or a substring
Projects ==
    { [given |-> FALSE, val |-> <<>>],
      [given |-> TRUE, val |-> <<"P">>] }

\* names of the directories PROJECTS_DIR may hold, in sorted order
DirList == << <<"a", "p">>, <<"q">> >>

\* originalPath values an index file may record
OriginalPaths == { <<"A", "P", "b">>, <<"b">> }

\* parse_args: the namespace, with args.query = " ".join(args.query)
parse_args(argv, deep, limit, project) ==
    [query |-> Join(argv), deep |-> deep, limit |-> limit, project |-> project]

ArgSpace ==
    { parse_args(q, d, l, p) : q \in QueryArgv, d \in BOOLEAN, l \in Limits, p \in Projects }

\* truth value of args.project
HasFilter(project) == project.given /\ project.val # <<>>

\* sessions-index.json entries (keys may be absent) read in a run of main
EntryPool ==
    { [summary |-> <<"a", " ", "B">>, firstPrompt |-> <<>>, gitBranch |-> <<>>,
       projectPath |-> <<>>, modified |-> <<"2">>, sessionId |-> <<"1">>],
      [summary |-> <<"A">>, modified |-> <<"1", "0">>, sessionId |-> <<"2">>],
      [summary |-> <<>>, firstPrompt |-> <<"A">>, gitBranch |-> <<"b">>,
       projectPath |-> <<>>, modified |-> <<"1", "0">>, sessionId |-> <<"2">>],
      [firstPrompt |-> <<"b">>, projectPath |-> <<"a", "b">>, modified |-> <<"2">>,
       sessionId |-> <<"1">>],
      [summary |-> <<"b">>, gitBranch |-> <<"B">>, modified |-> <<"1", "0">>] }

\* values of the searchable fields of the entries score_index_entry is tried on
FieldValues == { <<>>, <<"a">>, <<"B">>, <<"b", " ", "A">> }

ScoreEntryPool ==
    [summary : FieldValues, firstPrompt : FieldValues, gitBranch : FieldValues,
     projectPath : FieldValues]
        \cup { [firstPrompt |-> v] : v \in FieldValues }
        \cup { [summary |-> v, projectPath |-> w] : v, w \in FieldValues }

\* queries score_index_entry is tried on
ScoreArgv ==
    QueryArgv \cup { << <<"a">>, <<"B">>, <<"a">> >>, << <<"a", "b">> >>, << <<>> >> }

\* JSON objects a line of a session log may hold, by the token that stands for
\* their serialized text.  message.content is a string or a list of items.
JsonObjects ==
    [J1 |-> [type |-> "user", sessionId |-> <<"1">>,
             message |-> [content |-> [kind |-> "str", val |-> <<"a", " ", "b">>]]],
     J2 |-> [type |-> "assistant", sessionId |-> <<"1">>,
             message |-> [content |-> [kind |-> "list", items |->
                 << [type |-> "text", text |-> <<"A">>],
                    [type |-> "tool_use", input |-> <<"a", " ", "b">>] >>]]],
     J3 |-> [type |-> "assistant", sessionId |-> <<"2">>,
             message |-> [content |-> [kind |-> "list", items |->
                 << [type |-> "tool_use", input |-> <<"b", " ", "a", " ", "b">>] >>]]],
     J4 |-> [type |-> "user",
             message |-> [content |-> [kind |-> "str", val |-> <<"B", " ", "b">>]]],
     J5 |-> [type |-> "summary", sessionId |-> <<"1">>, summary |-> <<"a", " ", "b">>],
     J6 |-> [type |-> "assistant", sessionId |-> <<"2">>,
             message |-> [content |-> [kind |-> "list", items |->
                 << [type |-> "text", text |-> <<"b">>],
                    [type |-> "tool_result", content |-> <<"a">>] >>]]],
     J7 |-> [type |-> "user", sessionId |-> <<"2">>,
             message |-> [content |-> [kind |-> "str",
                                       val |-> <<"A", " ", "b", " ", "b">>]]]]

\* token of the path of a .jsonl file under the project directory DirList[d]
PathToken(d) == IF d = 1 THEN "F1" ELSE "F2"

\* project directory of a file path, 0 when it is no path
PathDir(file_path) ==
    IF file_path = <<"F1">> THEN 1 ELSE IF file_path = <<"F2">> THEN 2 ELSE 0

\* lines rg may print for files under DirList[d]: path:line:json, and lines
\* that do not have this form
LinesUnder(d) ==
    { <<PathToken(d), ":", "7", ":", j>> : j \in DOMAIN JsonObjects }
        \cup { <<PathToken(d)>>,
               <<PathToken(d), ":", "7">>,
               <<PathToken(d), ":", "x", ":", "J7">>,
               <<PathToken(d), ":", "7", ":", "J7", "x">> }

----------------------------------------------------------------------------
(* Index search *)

Unknown == <<"u", "n", "k", "n", "o", "w", "n">>

\* searchable_fields, in the order the dict is iterated
FieldNames == <<"summary", "firstPrompt", "gitBranch", "projectPath">>

FieldWeight(name) ==
    CASE name = "summary" -> WEIGHT_SUMMARY
      [] name = "firstPrompt" -> WEIGHT_FIRST_PROMPT
      [] name = "gitBranch" -> WEIGHT_BRANCH
      [] name = "projectPath" -> WEIGHT_PATH

\* ScoreFields stopping at the first field that holds the term
RECURSIVE ScoreFieldsFirstHit(_, _, _, _)
ScoreFieldsFirstHit(entry, term_lower, k, acc) ==
    IF k > Len(FieldNames) THEN acc
    ELSE LET name == FieldNames[k]
             weight == FieldWeight(name)
         IN  IF Contains(term_lower, Lower(Get(entry, name, <<>>)))
             THEN [term_found |-> TRUE,
                   total_score |-> acc.total_score + weight,
                   best_field |-> IF weight > acc.best_field_score
                                  THEN name ELSE acc.best_field,
                   best_field_score |-> IF weight > acc.best_field_score
                                        THEN weight ELSE acc.best_field_score]
             ELSE ScoreFieldsFirstHit(entry, term_lower, k + 1, acc)

\* the inner loop of score_index_entry: one term against the fields from k on
RECURSIVE ScoreFields(_, _, _, _)
ScoreFields(entry, term_lower, k, acc) ==
    IF k > Len(FieldNames) THEN acc
    ELSE LET name == FieldNames[k]
             weight == FieldWeight(name)
         IN  IF Contains(term_lower, Lower(Get(entry, name, <<>>)))
             THEN ScoreFields(entry, term_lower, k + 1,
                      [term_found |-> TRUE,
                       total_score |-> acc.total_score + weight,
                       best_field |-> IF weight > acc.best_field_score
                                      THEN name ELSE acc.best_field,
                       best_field_score |-> IF weight > acc.best_field_score
                                            THEN weight ELSE acc.best_field_score])
             ELSE ScoreFields(entry, term_lower, k + 1, acc)

\* ScoreTerms going on to the next term when a term is found nowhere
RECURSIVE ScoreTermsAnyTerm(_, _, _, _)
ScoreTermsAnyTerm(entry, query_terms, i, acc) ==
    IF i > Len(query_terms)
    THEN [score |-> acc.total_score, matched_field |-> acc.best_field]
    ELSE ScoreTermsAnyTerm(entry, query_terms, i + 1,
             ScoreFields(entry, Lower(query_terms[i]), 1,
                         [acc EXCEPT !.term_found = FALSE]))

\* the outer loop of score_index_entry: the terms from i on
RECURSIVE ScoreTerms(_, _, _, _)
ScoreTerms(entry, query_terms, i, acc) ==
    IF i > Len(query_terms)
    THEN [score |-> acc.total_score, matched_field |-> acc.best_field]
    ELSE LET after == ScoreFields(entry, Lower(query_terms[i]), 1,
                                  [acc EXCEPT !.term_found = FALSE])
         IN  IF ~after.term_found
             THEN [score |-> 0, matched_field |-> ""]
             ELSE ScoreTerms(entry, query_terms, i + 1, after)

score_index_entry(entry, query_terms) ==
    ScoreTerms(entry, query_terms, 1,
               [term_found |-> FALSE, total_score |-> 0, best_field |-> "",
                best_field_score |-> 0])

\* the IndexMatch built for an entry; index_path records the original_path of
\* the index file the entry was read from
IndexMatch(entry, orig, result) ==
    [session_id |-> Get(entry, "sessionId", Unknown),
     project_path |-> Get(entry, "projectPath", orig),
     first_prompt |-> Take(Get(entry, "firstPrompt", <<>>), MAX_SNIPPET_LEN),
     summary |-> Get(entry, "summary", <<>>),
     git_branch |-> Get(entry, "gitBranch", <<>>),
     modified |-> Get(entry, "modified", <<>>),
     matched_field |-> result.matched_field,
     score |-> result.score,
     index_path |-> orig]

\* KeyLess comparing the scores alone
KeyLessScoreOnly(a, b) == a.score < b.score

\* (a.score, a.modified) < (b.score, b.modified)
KeyLess(a, b) ==
    \/ a.score < b.score
    \/ a.score = b.score /\ StrLess(a.modified, b.modified)

\* list.sort(key=..., reverse=True): descending, equal keys keep their order
RECURSIVE InsertDesc(_, _)
InsertDesc(sorted, m) ==
    IF sorted = <<>> THEN <<m>>
    ELSE IF KeyLess(Head(sorted), m) THEN <<m>> \o sorted
    ELSE <<Head(sorted)>> \o InsertDesc(Tail(sorted), m)

RECURSIVE SortDesc(_)
SortDesc(ms) ==
    IF ms = <<>> THEN <<>>
    ELSE InsertDesc(SortDesc(SubSeq(ms, 1, Len(ms) - 1)), ms[Len(ms)])

\* PassesFilter with the test inverted
PassesFilterInverted(project, orig) ==
    ~(HasFilter(project) /\ Contains(Lower(project.val), Lower(orig)))

\* the project filter of search_index
PassesFilter(project, orig) ==
    ~(HasFilter(project) /\ ~Contains(Lower(project.val), Lower(orig)))

NoEntry == [kind |-> "none"]

NoLine == [line |-> <<>>, end |-> "none"]

NoCall == [text |-> <<>>, result |-> <<>>, done |-> FALSE]

NoOutput ==
    [pipeline |-> "none", total |-> 0, suffix |-> FALSE, displayed |-> <<>>,
     numbers |-> <<>>, empty_msg |-> FALSE]

\* print_index_results / print_deep_results: what is reported
print_results(pipeline, ms, limit) ==
    LET displayed == Take(ms, limit)
    IN  [pipeline |-> pipeline, total |-> Len(ms), suffix |-> Len(ms) > limit,
         displayed |-> displayed,
         numbers |-> [i \in 1..Len(displayed) |-> i],
         empty_msg |-> displayed = <<>>]

----------------------------------------------------------------------------
(* Deep search *)

\* build_rg_command: the search path, given what PROJECTS_DIR.iterdir() yields.
\* iterdir() yields the directories in an arbitrary order, so the first
\* directory that matches the filter is any one that matches; 0 is PROJECTS_DIR.
SearchPaths(project, present) ==
    LET hits == { d \in present : Contains(Lower(project.val), Lower(DirList[d])) }
    IN  IF HasFilter(project) /\ hits # {} THEN hits ELSE {0}

\* line.split(":", 2)
RECURSIVE SplitColon(_, _, _)
SplitColon(line, maxsplit, cur) ==
    IF line = <<>> THEN <<cur>>
    ELSE IF Head(line) = ":" /\ maxsplit > 0
         THEN <<cur>> \o SplitColon(Tail(line), maxsplit - 1, <<>>)
         ELSE SplitColon(Tail(line), maxsplit, Append(cur, Head(line)))

IsDigit(c) == c \in {"0", "1", "2", "3", "4", "5", "6", "7", "8", "9"}

DigitValue(c) ==
    CASE c = "0" -> 0 [] c = "1" -> 1 [] c = "2" -> 2 [] c = "3" -> 3 [] c = "4" -> 4
      [] c = "5" -> 5 [] c = "6" -> 6 [] c = "7" -> 7 [] c = "8" -> 8 [] c = "9" -> 9

\* int(s) raises ValueError
IntFails(s) == s = <<>> \/ \E i \in 1..Len(s) : ~IsDigit(s[i])

RECURSIVE IntOf(_)
IntOf(s) == IF s = <<>> THEN 0 ELSE 10 * IntOf(SubSeq(s, 1, Len(s) - 1)) + DigitValue(s[Len(s)])

\* json.loads(s) raises JSONDecodeError
JsonFails(s) == ~(Len(s) = 1 /\ s[1] \in DOMAIN JsonObjects)

parse_rg_output(line) ==
    LET parts == SplitColon(line, 2, <<>>)
    IN  IF Len(parts) < 3 THEN [ok |-> FALSE]
        ELSE IF IntFails(parts[2]) THEN [ok |-> FALSE]
        ELSE IF JsonFails(parts[3]) THEN [ok |-> FALSE]
        ELSE [ok |-> TRUE, file_path |-> parts[1], line_number |-> IntOf(parts[2]),
              record |-> JsonObjects[parts[3][1]]]

\* the texts collected from a content list, from item k on
RECURSIVE ItemTexts(_, _)
ItemTexts(items, k) ==
    IF k > Len(items) THEN <<>>
    ELSE LET item == items[k]
         IN  IF item.type = "text"
             THEN <<Get(item, "text", <<>>)>> \o ItemTexts(items, k + 1)
             ELSE IF item.type = "tool_result"
             THEN <<Get(item, "content", <<>>)>> \o ItemTexts(items, k + 1)
             ELSE ItemTexts(items, k + 1)

extract_text_from_message(record) ==
    LET msg == Get(record, "message", <<>>)
        content == Get(msg, "content", [kind |-> "str", val |-> <<>>])
    IN  IF content.kind = "str" THEN content.val
        ELSE Join(ItemTexts(content.items, 1))

\* str.find(sub): 0-based position of the first occurrence, -1 when there is none
Find(s, sub) ==
    IF Contains(sub, s)
    THEN CHOOSE i \in 0..(Len(s) - Len(sub)) :
            /\ SubSeq(s, i + 1, i + Len(sub)) = sub
            /\ \A j \in 0..(i - 1) : SubSeq(s, j + 1, j + Len(sub)) # sub
    ELSE -1

\* the loop of get_snippet over the terms, from term k on
RECURSIVE FindFirstTerm(_, _, _)
FindFirstTerm(text_lower, terms, k) ==
    IF k > Len(terms) THEN -1
    ELSE LET idx == Find(text_lower, Lower(terms[k]))
         IN  IF idx # -1 THEN idx ELSE FindFirstTerm(text_lower, terms, k + 1)

Ellipsis == <<".", ".", ".">>

get_snippet(text, query, context_chars) ==
    LET text_lower == Lower(text)
        whole == Find(text_lower, Lower(query))
        idx == IF whole # -1 THEN whole ELSE FindFirstTerm(text_lower, Split(query), 1)
        start == IF idx - context_chars > 0 THEN idx - context_chars ELSE 0
        stop == IF idx + Len(query) + context_chars < Len(text)
                THEN idx + Len(query) + context_chars ELSE Len(text)
    IN  IF idx = -1 THEN Take(text, MAX_SNIPPET_LEN)
        ELSE (IF start > 0 THEN Ellipsis ELSE <<>>)
                 \o SubSeq(text, start + 1, stop)
                 \o (IF stop < Len(text) THEN Ellipsis ELSE <<>>)

\* any(t.lower() in text.lower() for t in query.split())
Verified(text, query) ==
    \E k \in 1..Len(Split(query)) : Contains(Lower(Split(query)[k]), Lower(text))

\* the DeepMatch built for a line; text records the extracted text the snippet
\* is cut from
DeepMatch(parsed, session_id, text, query) ==
    [session_id |-> session_id,
     jsonl_path |-> parsed.file_path,
     line_number |-> parsed.line_number,
     message_type |-> parsed.record.type,
     snippet |-> get_snippet(text, query, CONTEXT_CHARS),
     text |-> text]

\* ProcessLine counting a line for the empty session id before it is parsed
ProcessLineCountFirst(line, ms, seen, query) ==
    LET parsed == parse_rg_output(line)
        early == (<<>> :> (Get(seen, <<>>, 0) + 1)) @@ seen
    IN  IF ~parsed.ok THEN [matches |-> ms, seen |-> early, end |-> "unparsed"]
        ELSE
        LET record == parsed.record
            record_type == Get(record, "type", "")
            session_id == Get(record, "sessionId", <<>>)
            session_count == Get(seen, session_id, 0)
            counted == (session_id :> (session_count + 1)) @@ seen
            text == extract_text_from_message(record)
        IN  IF record_type \notin {"user", "assistant"}
            THEN [matches |-> ms, seen |-> seen, end |-> "type"]
            ELSE IF session_count >= SESSION_CAP
            THEN [matches |-> ms, seen |-> seen, end |-> "capped"]
            ELSE IF text = <<>>
            THEN [matches |-> ms, seen |-> counted, end |-> "empty"]
            ELSE IF ~Verified(text, query)
            THEN [matches |-> ms, seen |-> counted, end |-> "unverified"]
            ELSE [matches |-> Append(ms, DeepMatch(parsed, session_id, text, query)),
                  seen |-> counted, end |-> "matched"]

\* ProcessLine testing the cap with > in place of >=
ProcessLineCapOffByOne(line, ms, seen, query) ==
    LET parsed == parse_rg_output(line)
    IN  IF ~parsed.ok THEN [matches |-> ms, seen |-> seen, end |-> "unparsed"]
        ELSE
        LET record == parsed.record
            record_type == Get(record, "type", "")
            session_id == Get(record, "sessionId", <<>>)
            session_count == Get(seen, session_id, 0)
            counted == (session_id :> (session_count + 1)) @@ seen
            text == extract_text_from_message(record)
        IN  IF record_type \notin {"user", "assistant"}
            THEN [matches |-> ms, seen |-> seen, end |-> "type"]
            ELSE IF session_count > SESSION_CAP
            THEN [matches |-> ms, seen |-> seen, end |-> "capped"]
            ELSE IF text = <<>>
            THEN [matches |-> ms, seen |-> counted, end |-> "empty"]
            ELSE IF ~Verified(text, query)
            THEN [matches |-> ms, seen |-> counted, end |-> "unverified"]
            ELSE [matches |-> Append(ms, DeepMatch(parsed, session_id, text, query)),
                  seen |-> counted, end |-> "matched"]

\* the body of the loop of search_deep for one output line: the new match
\* list and counters, and where the iteration ended
ProcessLine(line, ms, seen, query) ==
    LET parsed == parse_rg_output(line)
    IN  IF ~parsed.ok THEN [matches |-> ms, seen |-> seen, end |-> "unparsed"]
        ELSE
        LET record == parsed.record
            record_type == Get(record, "type", "")
            session_id == Get(record, "sessionId", <<>>)
            session_count == Get(seen, session_id, 0)
            counted == (session_id :> (session_count + 1)) @@ seen
            text == extract_text_from_message(record)
        IN  IF record_type \notin {"user", "assistant"}
            THEN [matches |-> ms, seen |-> seen, end |-> "type"]
            ELSE IF session_count >= SESSION_CAP
            THEN [matches |-> ms, seen |-> seen, end |-> "capped"]
            ELSE IF text = <<>>
            THEN [matches |-> ms, seen |-> counted, end |-> "empty"]
            ELSE IF ~Verified(text, query)
            THEN [matches |-> ms, seen |-> counted, end |-> "unverified"]
            ELSE [matches |-> Append(ms, DeepMatch(parsed, session_id, text, query)),
                  seen |-> counted, end |-> "matched"]

\* the strings of the serialized record the pattern can match in
RawStrings(record) ==
    LET msg == Get(record, "message", <<>>)
        content == Get(msg, "content", [kind |-> "str", val |-> <<>>])
        items == IF content.kind = "list" THEN content.items ELSE <<>>
    IN  (IF content.kind = "str" THEN {content.val} ELSE {})
            \cup { Get(items[k], "text", <<>>) : k \in 1..Len(items) }
            \cup { Get(items[k], "input", <<>>) : k \in 1..Len(items) }
            \cup { Get(items[k], "content", <<>>) : k \in 1..Len(items) }
            \cup { Get(record, "summary", <<>>) }

\* rg --ignore-case query: a line of a log is printed when the query, a pattern
\* of letters and blanks, occurs in it; lines that are not JSON are left open
RgPrints(query, line) ==
    LET parsed == parse_rg_output(line)
    IN  parsed.ok =>
            \E s \in RawStrings(parsed.record) : Contains(Lower(query), Lower(s))

\* lines rg can print when run on search path sp
RgLines(query, sp, present) ==
    { line \in UNION { LinesUnder(d) : d \in (IF sp = 0 THEN present ELSE {sp}) } :
          RgPrints(query, line) }

----------------------------------------------------------------------------
(* main *)

Init ==
    /\ pc = "main"
    /\ args \in ArgSpace
    /\ dirs = {}
    /\ file_idx = 0
    /\ original_path = <<>>
    /\ remaining = 0
    /\ consumed = 0
    /\ scored = NoEntry
    /\ matches = <<>>
    /\ seen_sessions = <<>>
    /\ search_path = 0
    /\ last_line = NoLine
    /\ stderr = <<>>
    /\ printed = NoOutput
    /\ exit_code = -1
    /\ snippet_call = NoCall

\* main: PROJECTS_DIR does not exist
MainNoProjects ==
    /\ pc = "main"
    /\ pc' = "exit"
    /\ stderr' = Append(stderr, "no_projects_dir")
    /\ exit_code' = 1
    /\ UNCHANGED <<args, dirs, file_idx, original_path, remaining, consumed, scored,
                   matches, seen_sessions, search_path, last_line, printed,
                   snippet_call>>

\* main: PROJECTS_DIR exists
MainDispatch ==
    /\ pc = "main"
    /\ pc' = IF args.deep THEN "search_deep" ELSE "search_index"
    /\ UNCHANGED <<args, dirs, file_idx, original_path, remaining, consumed, scored,
                   matches, seen_sessions, search_path, last_line, stderr, printed,
                   exit_code, snippet_call>>

\* search_index: load_index on the next index file (the directories of DirList
\* that hold one are visited in sorted order) and the project filter; a file
\* that fails to load yields the directory name and no entries
LoadIndex ==
    /\ pc = "search_index"
    /\ remaining = 0
    /\ \E i \in 1..Len(DirList), ok \in BOOLEAN, n \in 0..(MaxEntries - consumed) :
         /\ i > file_idx
         /\ \E orig \in (IF ok THEN OriginalPaths \cup {DirList[i]} ELSE {DirList[i]}) :
              /\ file_idx' = i
              /\ original_path' = orig
              /\ remaining' = IF ok /\ PassesFilter(args.project, orig) THEN n ELSE 0
    /\ UNCHANGED <<pc, args, dirs, consumed, scored, matches, seen_sessions,
                   search_path, last_line, stderr, printed, exit_code, snippet_call>>

\* search_index: one iteration of the loop over the entries of the index file
ScoreEntry(pool) ==
    /\ pc = "search_index"
    /\ remaining > 0
    /\ \E entry \in pool :
         LET result == score_index_entry(entry, Split(args.query))
         IN  /\ scored' = [kind |-> "entry", entry |-> entry, score |-> result.score,
                           matched_field |-> result.matched_field]
             /\ matches' = IF result.score > 0
                           THEN Append(matches, IndexMatch(entry, original_path, result))
                           ELSE matches
    /\ remaining' = remaining - 1
    /\ consumed' = consumed + 1
    /\ UNCHANGED <<pc, args, dirs, file_idx, original_path, seen_sessions,
                   search_path, last_line, stderr, printed, exit_code, snippet_call>>

\* search_index: no index file is left; sort and return (the locals of
\* search_index are gone)
SortMatches ==
    /\ pc = "search_index"
    /\ remaining = 0
    /\ matches' = SortDesc(matches)
    /\ pc' = "print_index"
    /\ file_idx' = 0
    /\ original_path' = <<>>
    /\ consumed' = 0
    /\ scored' = NoEntry
    /\ UNCHANGED <<args, dirs, remaining, seen_sessions, search_path, last_line,
                   stderr, printed, exit_code, snippet_call>>

\* main: print_index_results, then the program ends
PrintIndex ==
    /\ pc = "print_index"
    /\ printed' = print_results("index", matches, args.limit)
    /\ pc' = "exit"
    /\ exit_code' = 0
    /\ UNCHANGED <<args, dirs, file_idx, original_path, remaining, consumed, scored,
                   matches, seen_sessions, search_path, last_line, stderr,
                   snippet_call>>

\* search_deep: build_rg_command reads PROJECTS_DIR and picks the search path
BuildRgCommand ==
    /\ pc = "search_deep"
    /\ \E present \in SUBSET (1..Len(DirList)) :
         /\ dirs' = present
         /\ search_path' \in SearchPaths(args.project, present)
    /\ pc' = "run_rg"
    /\ UNCHANGED <<args, file_idx, original_path, remaining, consumed, scored,
                   matches, seen_sessions, last_line, stderr, printed, exit_code,
                   snippet_call>>

\* search_deep: subprocess.run raises FileNotFoundError
RgNotFound ==
    /\ pc = "run_rg"
    /\ stderr' = Append(stderr, "rg_not_found")
    /\ pc' = "exit"
    /\ exit_code' = 1
    /\ UNCHANGED <<args, dirs, file_idx, original_path, remaining, consumed, scored,
                   matches, seen_sessions, search_path, last_line, printed,
                   snippet_call>>

\* RgTimeout running rg again in place of returning
RgTimeoutRetry ==
    /\ pc = "run_rg"
    /\ stderr' = Append(stderr, "timed_out")
    /\ matches' = <<>>
    /\ pc' = "run_rg"
    /\ UNCHANGED <<args, dirs, file_idx, original_path, remaining, consumed, scored,
                   seen_sessions, search_path, last_line, printed, exit_code,
                   snippet_call>>

\* search_deep: subprocess.run raises TimeoutExpired; search_deep returns []
\* (its locals are gone)
RgTimeout ==
    /\ pc = "run_rg"
    /\ stderr' = Append(stderr, "timed_out")
    /\ matches' = <<>>
    /\ pc' = "print_deep"
    /\ dirs' = {}
    /\ search_path' = 0
    /\ UNCHANGED <<args, file_idx, original_path, remaining, consumed, scored,
                   seen_sessions, last_line, printed, exit_code, snippet_call>>

\* search_deep: rg ran and printed n lines; a return code other than 0 and 1
\* is reported and the output is read all the same
RgRan ==
    /\ pc = "run_rg"
    /\ \E n \in 0..MaxLines, warn \in BOOLEAN :
         /\ n > 0 => RgLines(args.query, search_path, dirs) # {}
         /\ remaining' = n
         /\ stderr' = IF warn THEN Append(stderr, "rg_returncode") ELSE stderr
    /\ pc' = "deep_loop"
    /\ UNCHANGED <<args, dirs, file_idx, original_path, consumed, scored, matches,
                   seen_sessions, search_path, last_line, printed, exit_code,
                   snippet_call>>

\* DeepLine with the limit tested by > in place of >=
DeepLineLimitOffByOne ==
    /\ pc = "deep_loop"
    /\ remaining > 0
    /\ Len(matches) <= args.limit
    /\ \E line \in RgLines(args.query, search_path, dirs) :
         LET after == ProcessLine(line, matches, seen_sessions, args.query)
         IN  /\ matches' = after.matches
             /\ seen_sessions' = after.seen
             /\ last_line' = [line |-> line, end |-> after.end]
    /\ remaining' = remaining - 1
    /\ consumed' = consumed + 1
    /\ UNCHANGED <<pc, args, dirs, file_idx, original_path, scored, search_path,
                   stderr, printed, exit_code, snippet_call>>

\* search_deep: one iteration of the loop over the output lines
DeepLine ==
    /\ pc = "deep_loop"
    /\ remaining > 0
    /\ Len(matches) < args.limit
    /\ \E line \in RgLines(args.query, search_path, dirs) :
         LET after == ProcessLine(line, matches, seen_sessions, args.query)
         IN  /\ matches' = after.matches
             /\ seen_sessions' = after.seen
             /\ last_line' = [line |-> line, end |-> after.end]
    /\ remaining' = remaining - 1
    /\ consumed' = consumed + 1
    /\ UNCHANGED <<pc, args, dirs, file_idx, original_path, scored, search_path,
                   stderr, printed, exit_code, snippet_call>>

\* search_deep: the loop ends, by the break on the limit or at the last line,
\* and search_deep returns matches (its locals are gone)
DeepReturn ==
    /\ pc = "deep_loop"
    /\ remaining = 0 \/ Len(matches) >= args.limit
    /\ pc' = "print_deep"
    /\ dirs' = {}
    /\ search_path' = 0
    /\ remaining' = 0
    /\ consumed' = 0
    /\ seen_sessions' = <<>>
    /\ last_line' = NoLine
    /\ UNCHANGED <<args, file_idx, original_path, scored, matches, stderr, printed,
                   exit_code, snippet_call>>

\* main: print_deep_results, then the program ends
PrintDeep ==
    /\ pc = "print_deep"
    /\ printed' = print_results("deep", matches, args.limit)
    /\ pc' = "exit"
    /\ exit_code' = 0
    /\ UNCHANGED <<args, dirs, file_idx, original_path, remaining, consumed, scored,
                   matches, seen_sessions, search_path, last_line, stderr,
                   snippet_call>>

Next ==
    \/ MainNoProjects
    \/ MainDispatch
    \/ LoadIndex
    \/ ScoreEntry(EntryPool)
    \/ SortMatches
    \/ PrintIndex
    \/ BuildRgCommand
    \/ RgNotFound
    \/ RgTimeout
    \/ RgRan
    \/ DeepLine
    \/ DeepReturn
    \/ PrintDeep

Spec == Init /\ [][Next]_vars

----------------------------------------------------------------------------
(* score_index_entry on its own: search_index has loaded an index file with *)
(* one entry, and the entry and the query range over larger sets            *)

InitScore ==
    /\ pc = "search_index"
    /\ args \in { parse_args(q, FALSE, DEFAULT_LIMIT, [given |-> FALSE, val |-> <<>>]) :
                    q \in ScoreArgv }
    /\ dirs = {}
    /\ file_idx = 1
    /\ original_path = DirList[1]
    /\ remaining = 1
    /\ consumed = 0
    /\ scored = NoEntry
    /\ matches = <<>>
    /\ seen_sessions = <<>>
    /\ search_path = 0
    /\ last_line = NoLine
    /\ stderr = <<>>
    /\ printed = NoOutput
    /\ exit_code = -1
    /\ snippet_call = NoCall

NextScore == ScoreEntry(ScoreEntryPool)

SpecScore == InitScore /\ [][NextScore]_vars

----------------------------------------------------------------------------
(* get_snippet on its own: called with the default context_chars on texts   *)
(* of up to 2 * MaxPad characters and more, with and without an occurrence  *)
(* of the query                                                             *)

\* n times the character c
Repl(c, n) == [i \in 1..n |-> c]

\* lengths of the text before and after the searched part, around context_chars
PadLens == {0, 1, CONTEXT_CHARS - 1, CONTEXT_CHARS, CONTEXT_CHARS + 1, MaxPad}

\* the part of a text the query is looked for in
SnippetCores ==
    { <<"a", " ", "b">>,
      <<"B">>,
      <<"b", " ", "x", " ", "A">>,
      <<"z">>,
      <<"A", " ", "B", " ", "a", " ", "b">> }

\* texts get_snippet is tried on
SnippetTexts ==
    { Repl(c, n) \o core \o Repl("y", m) :
        c \in {"x", "Idot"}, n \in PadLens, m \in PadLens, core \in SnippetCores }

InitSnippet ==
    /\ pc = "get_snippet"
    /\ args \in { parse_args(q, TRUE, DEFAULT_LIMIT, [given |-> FALSE, val |-> <<>>]) :
                    q \in ScoreArgv }
    /\ dirs = {}
    /\ file_idx = 0
    /\ original_path = <<>>
    /\ remaining = 0
    /\ consumed = 0
    /\ scored = NoEntry
    /\ matches = <<>>
    /\ seen_sessions = <<>>
    /\ search_path = 0
    /\ last_line = NoLine
    /\ stderr = <<>>
    /\ printed = NoOutput
    /\ exit_code = -1
    /\ snippet_call = NoCall

\* get_snippet(text, query) is called and returns
GetSnippet(texts) ==
    /\ pc = "get_snippet"
    /\ \E text \in texts :
          snippet_call' = [text |-> text,
                           result |-> get_snippet(text, args.query, CONTEXT_CHARS),
                           done |-> TRUE]
    /\ pc' = "returned"
    /\ UNCHANGED <<args, dirs, file_idx, original_path, remaining, consumed, scored,
                   matches, seen_sessions, search_path, last_line, stderr, printed,
                   exit_code>>

NextSnippet == GetSnippet(SnippetTexts)

SpecSnippet == InitSnippet /\ [][NextSnippet]_vars

----------------------------------------------------------------------------
(* Properties *)

QueryTerms == Split(args.query)

SearchableFields == {"summary", "firstPrompt", "gitBranch", "projectPath"}

\* term i of the query occurs in field f of the entry, whatever the case
TermInField(entry, i, f) ==
    Contains(Lower(QueryTerms[i]), Lower(Get(entry, f, <<>>)))

\* the AND condition: there is a term, and every term occurs in some field
AllTermsFound(entry) ==
    /\ QueryTerms # <<>>
    /\ \A i \in 1..Len(QueryTerms) : \E f \in SearchableFields : TermInField(entry, i, f)

\* number of terms (counted with repetition) that occur in field f
TermsIn(entry, f) == Cardinality({ i \in 1..Len(QueryTerms) : TermInField(entry, i, f) })

\* C1: score_index_entry returns a positive score exactly when the term list
\* is not empty and every term occurs, case-insensitively, in one of summary,
\* firstPrompt, gitBranch, projectPath; otherwise it returns (0, "") and
\* search_index does not add the entry to its matches.
C1_AndLogic ==
    scored.kind = "entry" =>
        /\ scored.score > 0 <=> AllTermsFound(scored.entry)
        /\ AllTermsFound(scored.entry) =>
               /\ Len(matches) = 1
               /\ matches[1].score = scored.score
               /\ matches[1].summary = Get(scored.entry, "summary", <<>>)
        /\ ~AllTermsFound(scored.entry) =>
               /\ scored.score = 0
               /\ scored.matched_field = ""
               /\ matches = <<>>

\* an entry matched a query of two terms of which only the second is in the
\* summary, where it is found in another case
C1_Witness ==
    /\ scored.kind = "entry"
    /\ Len(QueryTerms) = 2
    /\ scored.score > 0
    /\ Len(matches) = 1
    /\ ~TermInField(scored.entry, 1, "summary")
    /\ TermInField(scored.entry, 2, "summary")
    /\ ~Contains(QueryTerms[2], Get(scored.entry, "summary", <<>>))

\* C2: for an entry that matches all terms, the score is the sum of the field
\* weights (summary 3, firstPrompt 2, gitBranch 1, projectPath 1) over the
\* (term, field) pairs in which the field holds the term.
C2_ScoreIsWeightedSum ==
    (scored.kind = "entry" /\ AllTermsFound(scored.entry)) =>
        scored.score = 3 * TermsIn(scored.entry, "summary")
                         + 2 * TermsIn(scored.entry, "firstPrompt")
                         + 1 * TermsIn(scored.entry, "gitBranch")
                         + 1 * TermsIn(scored.entry, "projectPath")

\* a repeated term found in all four fields: 2 * (3 + 2 + 1 + 1)
C2_Witness ==
    /\ scored.kind = "entry"
    /\ Len(QueryTerms) >= 2
    /\ Lower(QueryTerms[1]) = Lower(QueryTerms[2])
    /\ \A f \in SearchableFields : TermsIn(scored.entry, f) = Len(QueryTerms)
    /\ scored.score = 7 * Len(QueryTerms)

\* C3: the list search_index returns is ranked: each result's
\* (score, modified) is >= that of the next, scores first, then the modified
\* strings in string order.
C3_Ranked ==
    (pc \in {"print_index", "exit"} /\ ~args.deep) =>
        \A k \in 1..(Len(matches) - 1) :
            \/ matches[k].score > matches[k + 1].score
            \/ /\ matches[k].score = matches[k + 1].score
               /\ ~StrLess(matches[k].modified, matches[k + 1].modified)

\* three results are returned, the first two with equal scores and ordered by
\* their modified strings ("2" before "10")
C3_Witness ==
    /\ pc = "print_index"
    /\ Len(matches) = 3
    /\ matches[1].score = matches[2].score
    /\ matches[1].modified = <<"2">>
    /\ matches[2].modified = <<"1", "0">>
    /\ matches[2].score > matches[3].score

SessionIds == { matches[k].session_id : k \in 1..Len(matches) }

MatchesOf(sid) == { k \in 1..Len(matches) : matches[k].session_id = sid }

\* C4: at every point of the loop of search_deep, no session id (the empty id
\* of records without sessionId included) has more than 2 matches.
C4_SessionCap ==
    args.deep => \A sid \in SessionIds : Cardinality(MatchesOf(sid)) <= 2

\* a third line of a session that already has two matches was dropped
C4_Witness ==
    /\ args.deep
    /\ last_line.end = "capped"
    /\ \E sid \in SessionIds : Cardinality(MatchesOf(sid)) = 2

\* C5: the match list of search_deep never holds more than limit entries, and
\* once it holds limit entries no further line is read: the matches stay as
\* they are, and so do the per-session counters for as long as the loop has
\* them.
C5_Limit ==
    /\ [](args.deep => Len(matches) <= args.limit)
    /\ [][(args.deep /\ Len(matches) >= args.limit) =>
             /\ matches' = matches
             /\ consumed' # consumed + 1
             /\ pc' = "deep_loop" => (seen_sessions' = seen_sessions /\ consumed' = consumed)
             /\ pc = "deep_loop" => pc' = "print_deep"]_vars

\* the limit is reached with output lines still unread
C5_Witness ==
    /\ pc = "deep_loop"
    /\ args.limit > 0
    /\ Len(matches) = args.limit
    /\ remaining > 0
    /\ last_line.end = "matched"

\* C6: with a project filter, every match of search_index comes from an index
\* file whose original_path (originalPath, or the directory name) holds the
\* filter case-insensitively, and no entry of another index file is read.
C6_IndexProjectFilter ==
    (~args.deep /\ HasFilter(args.project)) =>
        /\ \A k \in 1..Len(matches) :
               Contains(Lower(args.project.val), Lower(matches[k].index_path))
        /\ (file_idx > 0 /\ ~Contains(Lower(args.project.val), Lower(original_path)))
               => remaining = 0

\* a match was kept from a file whose originalPath holds the filter in another
\* case, and the file read after it was filtered out
C6_Witness ==
    /\ ~args.deep
    /\ HasFilter(args.project)
    /\ Len(matches) > 0
    /\ ~Contains(args.project.val, matches[1].index_path)
    /\ file_idx = 2
    /\ ~Contains(Lower(args.project.val), Lower(original_path))

\* C7: with a project filter, every match of search_deep comes from a log file
\* under a project directory whose name holds the filter case-insensitively,
\* and when no directory matches the filter there are no matches.
C7_DeepProjectFilter ==
    (args.deep /\ HasFilter(args.project)) =>
        \A k \in 1..Len(matches) :
            LET d == PathDir(matches[k].jsonl_path)
            IN  d # 0 /\ Contains(Lower(args.project.val), Lower(DirList[d]))

\* C8: for every match of search_deep, the text extracted from the message
\* holds every whitespace-separated term of the query, case-insensitively.
C8_DeepAllTerms ==
    args.deep =>
        \A k \in 1..Len(matches) : \A i \in 1..Len(QueryTerms) :
            Contains(Lower(QueryTerms[i]), Lower(matches[k].text))

\* positions of the colons of a line
Colons(line) == { i \in 1..Len(line) : line[i] = ":" }

\* the line is not path:number:json with a number of digits and one JSON object
Unparsable(line) ==
    \/ Cardinality(Colons(line)) < 2
    \/ LET c1 == CHOOSE i \in Colons(line) : \A j \in Colons(line) : i <= j
           c2 == CHOOSE i \in Colons(line) \ {c1} : \A j \in Colons(line) \ {c1} : i <= j
           number == SubSeq(line, c1 + 1, c2 - 1)
           json == SubSeq(line, c2 + 1, Len(line))
       IN  \/ number = <<>>
           \/ \E i \in 1..Len(number) : number[i] \notin {"0", "1", "2", "3", "4", "5", "6", "7", "8", "9"}
           \/ Len(json) # 1
           \/ json[1] \notin {"J1", "J2", "J3", "J4", "J5", "J6", "J7"}

\* C9: an output line that cannot be parsed is skipped: reading it leaves the
\* matches and the per-session counters as they are, raises nothing, and the
\* loop goes on to the next line.
C9_SkipUnparsable ==
    [][(consumed' = consumed + 1 /\ args.deep /\ Unparsable(last_line'.line)) =>
          /\ matches' = matches
          /\ seen_sessions' = seen_sessions
          /\ last_line'.end = "unparsed"
          /\ pc' = "deep_loop"
          /\ exit_code' = -1
          /\ stderr' = stderr
          /\ remaining' = remaining - 1]_vars

\* a line with invalid JSON was skipped after a match, and lines remain
C9_Witness ==
    /\ pc = "deep_loop"
    /\ last_line.end = "unparsed"
    /\ Cardinality(Colons(last_line.line)) >= 2
    /\ Len(matches) = 1
    /\ remaining > 0
    /\ Len(matches) < args.limit

\* steps main can still take, at most
Variant ==
    CASE pc = "main" ->
             5 + MaxLines + (Len(DirList) + 1) * (MaxEntries + 1)
      [] pc = "search_index" ->
             2 + (Len(DirList) - file_idx) * (MaxEntries + 1) + remaining
      [] pc = "search_deep" -> 4 + MaxLines
      [] pc = "run_rg" -> 3 + MaxLines
      [] pc = "deep_loop" -> 2 + remaining
      [] pc \in {"print_index", "print_deep"} -> 1
      [] pc = "exit" -> 0

InStderr(msg) == \E k \in 1..Len(stderr) : stderr[k] = msg

\* what main has done when it ends
FinalState ==
    \/ /\ exit_code = 0
       /\ printed.pipeline = (IF args.deep THEN "deep" ELSE "index")
       /\ printed.total = Len(matches)
       /\ InStderr("timed_out") => (printed.total = 0 /\ printed.empty_msg)
    \/ /\ exit_code = 1
       /\ printed.pipeline = "none"
       /\ InStderr("no_projects_dir") \/ InStderr("rg_not_found")

\* main can take a step: the straight-line steps are enabled, and in the two
\* loops either there is an entry or a line to read or the loop is left
\* (search_index sorts and returns when no entry remains)
CanStep ==
    /\ pc \in {"main", "search_deep", "run_rg", "print_index", "print_deep"} =>
           ENABLED (MainDispatch \/ BuildRgCommand \/ RgTimeout \/ PrintIndex \/ PrintDeep)
    /\ pc = "search_index" =>
           IF remaining > 0 THEN EntryPool # {} ELSE remaining = 0
    /\ pc = "deep_loop" =>
           IF remaining = 0 \/ Len(matches) >= args.limit
           THEN ENABLED DeepReturn
           ELSE RgLines(args.query, search_path, dirs) # {}

RecordOf(line) == parse_rg_output(line).record

\* the line holds a user or assistant message
IsMessage(line) ==
    /\ parse_rg_output(line).ok
    /\ Get(RecordOf(line), "type", "") \in {"user", "assistant"}

\* the line holds a message whose extracted text is not empty and holds a term
\* of the query
PassesVerification(line) ==
    /\ IsMessage(line)
    /\ extract_text_from_message(RecordOf(line)) # <<>>
    /\ Verified(extract_text_from_message(RecordOf(line)), args.query)

SessionOf(line) == Get(RecordOf(line), "sessionId", <<>>)

\* C11: the per-session cap is applied after extraction and verification: a
\* line dropped for an empty text or a text without any term is not counted
\* for its session, and a line that passes verification while its session has
\* fewer than 2 matches (and the limit is not reached) is returned.
C11_CapAfterVerification ==
    [][(args.deep /\ consumed' = consumed + 1 /\ IsMessage(last_line'.line)) =>
          /\ ~PassesVerification(last_line'.line) =>
                 Get(seen_sessions', SessionOf(last_line'.line), 0)
                     = Get(seen_sessions, SessionOf(last_line'.line), 0)
          /\ (/\ PassesVerification(last_line'.line)
              /\ Cardinality(MatchesOf(SessionOf(last_line'.line))) < 2) =>
                 /\ Len(matches') = Len(matches) + 1
                 /\ matches'[Len(matches')].session_id = SessionOf(last_line'.line)]_vars

Min(a, b) == IF a < b THEN a ELSE b

\* C13: print_index_results reports the number of matches, displays the first
\* min(total, limit) of them in ranked order numbered from 1, prints the
\* "showing top" suffix exactly when total > limit, and prints "No matches
\* found in session metadata." exactly when total is 0.
C13_PrintIndex ==
    (pc = "exit" /\ printed.pipeline = "index") =>
        /\ printed.total = Len(matches)
        /\ Len(printed.displayed) = Min(printed.total, args.limit)
        /\ \A i \in 1..Len(printed.displayed) :
               /\ printed.displayed[i] = matches[i]
               /\ printed.numbers[i] = i
        /\ printed.suffix <=> (printed.total > args.limit)
        /\ printed.empty_msg <=> (printed.total = 0)

\* sub occurs in text at the 0-based position i, whatever the case: a stretch
\* of text that starts at i is, in lower case, sub in lower case
OccursAt(text, sub, i) ==
    \E j \in i..Min(Len(text), i + Len(Lower(sub))) :
        Lower(SubSeq(text, i + 1, j)) = Lower(sub)

\* first position at which sub occurs in text, -1 when it does not occur
FirstPosition(text, sub) ==
    LET positions == { i \in 0..Len(text) : OccursAt(text, sub, i) }
    IN  IF positions = {} THEN -1
        ELSE CHOOSE i \in positions : \A j \in positions : i <= j

\* the whole query when it occurs in text, else the first term of the query
\* that does, else nothing
FoundString(text, query) ==
    LET terms == Split(query)
        found == { k \in 1..Len(terms) : FirstPosition(text, terms[k]) # -1 }
    IN  IF FirstPosition(text, query) # -1 THEN <<query>>
        ELSE IF found = {} THEN <<>>
        ELSE <<terms[CHOOSE k \in found : \A l \in found : k <= l]>>

\* the window of 80 characters around the occurrence at idx
Window(text, query, idx) ==
    LET start == IF idx - 80 > 0 THEN idx - 80 ELSE 0
        stop == Min(Len(text), idx + Len(query) + 80)
    IN  (IF start > 0 THEN <<".", ".", ".">> ELSE <<>>)
            \o SubSeq(text, start + 1, stop)
            \o (IF stop < Len(text) THEN <<".", ".", ".">> ELSE <<>>)

\* C12: get_snippet(text, query) returns the window of 80 characters around
\* the first occurrence in text of the whole query or, when the whole query
\* does not occur, of the first query term that occurs, with "..." at each
\* end that is cut, so that the occurrence is inside the snippet; when nothing
\* occurs it returns the first 200 characters of text.
C12_Snippet ==
    snippet_call.done =>
        LET text == snippet_call.text
            found == FoundString(text, args.query)
        IN  IF found = <<>>
            THEN snippet_call.result = SubSeq(text, 1, Min(Len(text), 200))
            ELSE /\ snippet_call.result
                        = Window(text, args.query, FirstPosition(text, found[1]))
                 /\ FirstPosition(snippet_call.result, found[1]) # -1

=============================================================================
